---- MODULE Spec2Model ----
(***************************************************************************)
(* Model of the Basel LNHR DAC II driver (pymeasure/instruments/baspi/     *)
(* sp1060.py): the voltage <-> 24-bit hex codec, the per-channel setters   *)
(* with their handshake, the measurements, the bulk status query,           *)
(* disable_all and shutdown.                                               *)
(*                                                                         *)
(* Text on the wire is modelled by TLA+ strings; every write and every     *)
(* read of the transport is appended to the log io, in order.              *)
(*                                                                         *)
(* A voltage is an integer number of 1/VoltGrid volt steps.  The code      *)
(* computes in binary floating point; on this grid the exact product       *)
(* (v + 10) * 838860.74 is either 0 or at least 1/(100*VoltGrid) away from *)
(* an integer (41943037 = 71*107*5521 shares no factor with 50*VoltGrid),  *)
(* far more than the rounding error of a double (about 4e-9), so int()     *)
(* of the float and the exact truncation below agree.                      *)
(***************************************************************************)
EXTENDS Integers, Sequences, FiniteSets, TLC

\* ---------------------------------------------------------------- bounds
\* Voltages requested by callers are multiples of 1/VoltGrid volt.
VoltGrid == 10
\* Callers may request up to OverRange volts beyond either end of the range.
OverRange == 1
\* Bulk status responses of twelve ON/OFF fields carry at most MaxOn "ON".
MaxOn == 2
\* Other bulk status responses have at most MaxFields fields.
MaxFields == 3
\* With an answering device: operations start with fewer than MaxPending
\* unread lines in the transport.
MaxPending == 2
\* With an answering device: the caller uses channels 1..DevChannels.
DevChannels == 1

\* ------------------------------------------------------ program constants
\* channels = MultiChannelCreator(DACChannel, tuple(range(1, 13)))
NumChannels == 12
\* values=[-10, 10]
VoltLo == 0 - 10
VoltHi == 10
\* the literal 10 of (v + 10) and of (... - 10)
Offset == 10
\* the literal 838860.74 = ScaleNum / ScaleDen
ScaleNum == 83886074
ScaleDen == 100
\* the width of the format specification 06X
HexWidth == 6

Channels == 1..NumChannels

\* --------------------------------------------------------------- state
VARIABLES
    pc,      \* position of the driver: Idle, CommandSent, AwaitingHandshake,
             \* Success, Failed, AwaitingStatus, Loop, Returned
    op,      \* the operation the caller invoked ("none" when Idle)
    cur,     \* the property being set: [prop, ch]
    volt,    \* the voltage passed to the voltage_setpoint setter (grid steps)
    flag,    \* the value passed to the enabled setter
    io,      \* transport log of the operation: [dir |-> "w" | "r", text]
    todo,    \* disable_all: the channels the for loop has still to visit
    result,  \* the list enabled_channels returned
    error,   \* the message of the exception raised, "" when none
    reading, \* the value a measurement or the enabled getter returned
    closed,  \* the framework's shutdown has been performed
    pending, \* lines the device has sent and the driver has not read yet
    device,  \* "any": a read may return any line; "answering": the device
             \* answers every command with one line, reads take them in order
    stage,   \* codec specification: input, encoded, decoded
    cv,      \* codec specification: the voltage (grid steps)
    ccode,   \* codec specification: the wire code produced by set_process
    cdec     \* codec specification: the voltage cast returned, <<num, den>>

vars ==
    <<pc, op, cur, volt, flag, io, todo, result, error, reading, closed,
      pending, device, stage, cv, ccode, cdec>>

ctlVars ==
    <<pc, op, cur, volt, flag, io, todo, result, error, reading, closed,
      pending, device>>

codecVars == <<stage, cv, ccode, cdec>>

NoCur == [prop |-> "none", ch |-> 0]

NoReading == [kind |-> "none", num |-> 0, den |-> 1, text |-> ""]

W(text) == [dir |-> "w", text |-> text]

R(text) == [dir |-> "r", text |-> text]

\* The voltages a caller may pass, and those inside values=[-10, 10].
Voltages == ((VoltLo - OverRange) * VoltGrid)..((VoltHi + OverRange) * VoltGrid)

InRange == (VoltLo * VoltGrid)..(VoltHi * VoltGrid)

\* The lines the transport may hand to check_set_errors.
HandshakeLines == {"0", "0\r", "0\r\n", "E1", "E1\r\n"}

\* --------------------------------------------------------------- codec
Chr(s, i) == SubSeq(s, i, i)

UpperDigits == "0123456789ABCDEF"

LowerDigits == "0123456789abcdef"

RECURSIVE HexDigits(_)
\* the digits of format(n, "X") for n >= 0
HexDigits(n) ==
    IF n < 16 THEN Chr(UpperDigits, n + 1)
    ELSE HexDigits(n \div 16) \o Chr(UpperDigits, (n % 16) + 1)

RECURSIVE ZeroPad(_, _)
ZeroPad(s, w) == IF Len(s) >= w THEN s ELSE ZeroPad("0" \o s, w)

\* f"{n:X}": no padding
FormatX(n) == IF n < 0 THEN "-" \o HexDigits(0 - n) ELSE HexDigits(n)

\* f"{n:06X}": sign-aware zero padding to HexWidth characters
Format06X(n) ==
    IF n < 0 THEN "-" \o ZeroPad(HexDigits(0 - n), HexWidth - 1)
    ELSE ZeroPad(HexDigits(n), HexWidth)

\* floor(a * b / c) for a >= 0, b >= 0, c > 0 without leaving 32 bits
MulDiv(a, b, c) == a * (b \div c) + ((a * (b % c)) \div c)

\* int((v + 10) * 838860.74): truncation toward zero
ToCode(v) ==
    LET a == v + Offset * VoltGrid
    IN  IF a >= 0 THEN MulDiv(a, ScaleNum, VoltGrid * ScaleDen)
        ELSE 0 - MulDiv(0 - a, ScaleNum, VoltGrid * ScaleDen)

\* set_process=lambda v: f"{int((v + 10) * 838860.74):06X}"
set_process(v) == Format06X(ToCode(v))

\* a validator that lets every value through unchanged
truncated_range_unchecked(v) == v

\* validator=validators.truncated_range, values=[-10, 10]
truncated_range(v) ==
    IF v > VoltHi * VoltGrid THEN VoltHi * VoltGrid
    ELSE IF v < VoltLo * VoltGrid THEN VoltLo * VoltGrid
    ELSE v

DigitVal(c) ==
    (CHOOSE i \in 1..16 : Chr(UpperDigits, i) = c \/ Chr(LowerDigits, i) = c) - 1

RECURSIVE HexVal(_)
\* int(s, 16) for a string of hexadecimal digits
HexVal(s) ==
    IF Len(s) = 0 THEN 0
    ELSE 16 * HexVal(SubSeq(s, 1, Len(s) - 1)) + DigitVal(Chr(s, Len(s)))

\* the decoder _from_24bit_hex: two's complement, (val / 8388607) * 10
cast_from_24bit_hex(s) ==
    LET val == HexVal(s)
    IN  <<(IF val >= 8388608 THEN val - 16777216 ELSE val) * 10, 8388607>>

\* cast=lambda v: float(int(v, 16) / (838860.74) - 10), as the fraction
\* <<numerator, denominator>> of a volt
cast(s) == <<HexVal(s) * ScaleDen - Offset * ScaleNum, ScaleNum>>

\* whether int(s, 16) accepts s: a non-empty run of hexadecimal digits
IsHex(s) ==
    /\ Len(s) > 0
    /\ \A i \in 1..Len(s) :
           \E k \in 1..16 :
               Chr(UpperDigits, k) = Chr(s, i) \/ Chr(LowerDigits, k) = Chr(s, i)

\* ------------------------------------------------------------- channel
\* "{ch} %s" % value, with {ch} replaced by the channel id
ChannelCommand(n, value) == ToString(n) \o " " \o value

\* enabled: values={True: "ON", False: "OFF"}, map_values=True
EnabledToken(on) == IF on THEN "ON" ELSE "OFF"

\* enabled declared with check_set_errors=True
EnabledCheckSetErrorsOn == TRUE

\* enabled: check_set_errors=False
EnabledCheckSetErrors == FALSE

\* voltage_setpoint: check_set_errors=True
VoltageCheckSetErrors == TRUE

ChecksSetErrors(prop) ==
    IF prop = "enabled" THEN EnabledCheckSetErrors ELSE VoltageCheckSetErrors

\* the command the voltage_setpoint setter writes for channel n, voltage v
VoltageCommand(n, v) == ChannelCommand(n, set_process(truncated_range(v)))

\* the enabled setter writing the code of 0 V in place of the token
EnabledCommandClearing(n, on) == VoltageCommand(n, 0)

\* the command the enabled setter writes for channel n
EnabledCommand(n, on) == ChannelCommand(n, EnabledToken(on))

\* the comparison of check_set_errors, inverted
check_set_errors_inverted(response) == response # "0\r\n"

\* check_set_errors: TRUE when it returns [], FALSE when it raises
check_set_errors(response) == response = "0\r\n"

\* the message of the RuntimeError check_set_errors raises
ErrorText(response) == "Channel Error: " \o response

\* ---------------------------------------------------------- instrument
\* str.strip() removes leading and trailing whitespace
IsSpace(c) == c \in {" ", "\t", "\n", "\r", "\f"}

RECURSIVE LStrip(_)
LStrip(s) ==
    IF Len(s) > 0 /\ IsSpace(Chr(s, 1)) THEN LStrip(SubSeq(s, 2, Len(s))) ELSE s

RECURSIVE RStrip(_)
RStrip(s) ==
    IF Len(s) > 0 /\ IsSpace(Chr(s, Len(s)))
    THEN RStrip(SubSeq(s, 1, Len(s) - 1))
    ELSE s

Strip(s) == RStrip(LStrip(s))

RECURSIVE Split(_)
\* raw_response.split(";")
Split(s) ==
    IF \A i \in 1..Len(s) : Chr(s, i) # ";" THEN <<s>>
    ELSE LET i == CHOOSE k \in 1..Len(s) :
                      /\ Chr(s, k) = ";"
                      /\ \A j \in 1..(k - 1) : Chr(s, j) # ";"
         IN  <<SubSeq(s, 1, i - 1)>> \o Split(SubSeq(s, i + 1, Len(s)))

\* the filter that keeps every field
KeepBlank(p) == TRUE

NonBlank(p) == Strip(p) # ""

\* the comparison with "ON" negated
IsOff(p) == Strip(p) # "ON"

IsOn(p) == Strip(p) = "ON"

RECURSIVE MapIsOn(_)
MapIsOn(ps) ==
    IF ps = <<>> THEN <<>> ELSE <<IsOn(Head(ps))>> \o MapIsOn(Tail(ps))

\* [p.strip() == "ON" for p in raw_response.split(";") if p.strip()]
status_parts(raw) == MapIsOn(SelectSeq(Split(raw), NonBlank))

RECURSIVE ZipSelect(_, _)
\* [ch for ch, is_enabled in zip(self.channels, parts) if is_enabled], from
\* channel id n on; zip stops at the shorter of the two
ZipSelect(n, parts) ==
    IF n > NumChannels \/ parts = <<>> THEN <<>>
    ELSE (IF Head(parts) THEN <<n>> ELSE <<>>) \o ZipSelect(n + 1, Tail(parts))

\* the channels numbered from 0 instead of 1
enabled_channels_from_zero(raw) == ZipSelect(0, status_parts(raw))

\* the list enabled_channels returns for the response raw
enabled_channels(raw) == ZipSelect(1, status_parts(raw))

\* the bulk status query
StatusQuery == "ALL S?"

RECURSIVE Join(_)
Join(fs) ==
    IF Len(fs) = 1 THEN Head(fs) ELSE Head(fs) \o ";" \o Join(Tail(fs))

\* the sets of at most MaxOn channels
ContractSets == {T \in SUBSET Channels : Cardinality(T) <= MaxOn}

\* the response of a device on which exactly the channels of S are ON: one
\* ON/OFF field per channel
StatusOf(S) == Join([i \in Channels |-> IF i \in S THEN "ON" ELSE "OFF"])

ContractStatusLines == {StatusOf(S) : S \in ContractSets}

FieldTokens == {"ON", "OFF", "", " ON "}

\* other lines the transport may hand back: few fields, blank fields, padding
ShortStatusLines ==
    UNION { { Join(fs) : fs \in [1..k -> FieldTokens] } : k \in 1..MaxFields }

StatusLines == ContractStatusLines \cup ShortStatusLines

\* ----------------------------------------------------------------- Init
CodecIdle ==
    /\ stage = "off"
    /\ cv = 0
    /\ ccode = ""
    /\ cdec = <<0, 1>>

CtlIdle ==
    /\ pc = "Idle"
    /\ op = "none"
    /\ cur = NoCur
    /\ volt = 0
    /\ flag = FALSE
    /\ io = <<>>
    /\ todo = <<>>
    /\ result = <<>>
    /\ error = ""
    /\ reading = NoReading
    /\ closed = FALSE
    /\ pending = <<>>

Init == CtlIdle /\ device = "any" /\ CodecIdle

\* control is back at the caller: the driver keeps nothing of the operation
BackToIdle ==
    /\ pc' = "Idle"
    /\ op' = "none"
    /\ cur' = NoCur
    /\ volt' = 0
    /\ flag' = FALSE
    /\ io' = <<>>
    /\ todo' = <<>>
    /\ result' = <<>>
    /\ error' = ""
    /\ reading' = NoReading
    /\ UNCHANGED <<closed, pending, device>>

\* ------------------------------------------------------------ transport
\* the query of the readback as "n?"
VoltageQueryBare(n) == ToString(n) \o "?"

\* the measurement queries: "{ch} V?" and "{ch} S?" with the channel id
VoltageQuery(n) == ToString(n) \o " V?"

EnabledQuery(n) == ToString(n) \o " S?"

\* what ch.voltage returns for the line read: values() strips the line and
\* applies cast, and keeps the stripped text when cast raises
measured_voltage(line) ==
    LET v == Strip(line)
    IN  IF IsHex(v)
        THEN [kind |-> "float", num |-> cast(v)[1], den |-> cast(v)[2],
              text |-> ""]
        ELSE [kind |-> "str", num |-> 0, den |-> 1, text |-> v]

\* what the transport may hand back to the voltage query: codes in either
\* case, short codes, padded codes, and lines that are no hexadecimal number
VoltageLines ==
    {"000000", "7FFFFF", "FFFFFF", "ffffff", "0a1B2c", "7F", "E1", "0\r\n",
     " 7FFFFF", "ON", ""}

\* what the transport may hand back to the per-channel status query
EnabledLines == {"ON", "OFF", "ON\r", " OFF", "0", "E1", ""}

\* the lines by which an answering device acknowledges a command that
\* changes its state: "0" as in the protocol of the tests, and "0" with its
\* line termination, the one line check_set_errors accepts
DeviceAcks == {"0", "0\r\n"}

DeviceVoltageLines == {"7FFFFF"}

DeviceStatusLines == {StatusOf(S) : S \in SUBSET (1..DevChannels)}

\* an answering device sends one line for every command it receives
DeviceAnswers(cmd) ==
    IF cmd = StatusQuery THEN DeviceStatusLines
    ELSE IF cmd \in {VoltageQuery(n) : n \in Channels} THEN DeviceVoltageLines
    ELSE IF cmd \in {EnabledQuery(n) : n \in Channels} THEN {"ON", "OFF"}
    ELSE DeviceAcks

\* write(cmd): an answering device queues its answer behind the unread lines
Transmit(cmd) ==
    IF device = "answering"
    THEN \E ans \in DeviceAnswers(cmd) : pending' = Append(pending, ans)
    ELSE pending' = pending

\* read() returning line: the oldest unread line of an answering device
Receive(line) ==
    IF device = "answering"
    THEN pending # <<>> /\ line = Head(pending) /\ pending' = Tail(pending)
    ELSE pending' = pending

\* the lines read() can return when the lines of S are the expected ones
Readable(S) ==
    IF device = "answering"
    THEN (IF pending = <<>> THEN {} ELSE {Head(pending)})
    ELSE S

\* the channels and voltages the caller uses
CallerChannels == IF device = "answering" THEN 1..DevChannels ELSE Channels

CallerVoltages ==
    IF device = "answering"
    THEN {VoltLo * VoltGrid, 0, VoltHi * VoltGrid}
    ELSE Voltages

\* the caller may start an operation
CanStart ==
    /\ pc = "Idle"
    /\ ~closed
    /\ device = "answering" => Len(pending) < MaxPending

\* -------------------------------------------------------------- actions
\* ch.voltage_setpoint = v: validate, encode, write
SetVoltage(n, v) ==
    /\ CanStart
    /\ op' = "setVoltage"
    /\ cur' = [prop |-> "voltage_setpoint", ch |-> n]
    /\ volt' = v
    /\ io' = <<W(VoltageCommand(n, v))>>
    /\ Transmit(VoltageCommand(n, v))
    /\ pc' = "CommandSent"
    /\ UNCHANGED <<flag, todo, result, error, reading, closed, device>>
    /\ UNCHANGED codecVars

\* ch.enabled = on: map the value, write
SetEnabled(n, on) ==
    /\ CanStart
    /\ op' = "setEnabled"
    /\ cur' = [prop |-> "enabled", ch |-> n]
    /\ flag' = on
    /\ io' = <<W(EnabledCommand(n, on))>>
    /\ Transmit(EnabledCommand(n, on))
    /\ pc' = "CommandSent"
    /\ UNCHANGED <<volt, todo, result, error, reading, closed, device>>
    /\ UNCHANGED codecVars

\* after the write the setter calls check_set_errors when the property asks
\* for it, and is done otherwise
AfterWrite ==
    /\ pc = "CommandSent"
    /\ pc' = IF ChecksSetErrors(cur.prop) THEN "AwaitingHandshake" ELSE "Success"
    /\ UNCHANGED <<op, cur, volt, flag, io, todo, result, error, reading>>
    /\ UNCHANGED <<closed, pending, device>>
    /\ UNCHANGED codecVars

\* check_set_errors: read one line and compare it
Handshake(line) ==
    /\ pc = "AwaitingHandshake"
    /\ Receive(line)
    /\ io' = Append(io, R(line))
    /\ IF check_set_errors(line)
       THEN pc' = "Success" /\ error' = error
       ELSE pc' = "Failed" /\ error' = ErrorText(line)
    /\ UNCHANGED <<op, cur, volt, flag, todo, result, reading, closed, device>>
    /\ UNCHANGED codecVars

\* the setter returns to the caller
ReturnOk ==
    /\ pc = "Success"
    /\ op \in {"setVoltage", "setEnabled"}
    /\ BackToIdle
    /\ UNCHANGED codecVars

\* the exception propagated out of every frame without being handled: the
\* operation is over and is not started again
RaiseRetry ==
    /\ pc = "Failed"
    /\ cur.prop = "voltage_setpoint"
    /\ Len(io) < 2 * NumChannels
    /\ io' = Append(io, W(VoltageCommand(cur.ch, volt)))
    /\ Transmit(VoltageCommand(cur.ch, volt))
    /\ pc' = "CommandSent"
    /\ error' = ""
    /\ UNCHANGED <<op, cur, volt, flag, todo, result, reading, closed, device>>
    /\ UNCHANGED codecVars

\* the exception handled inside the loop, which goes on
RaiseSwallowed ==
    /\ pc = "Failed"
    /\ IF op \in {"disableAll", "shutdown"}
       THEN pc' = "Success" /\ error' = "" /\
            UNCHANGED <<op, cur, volt, flag, io, todo, result, reading,
                        closed, pending, device>>
       ELSE BackToIdle
    /\ UNCHANGED codecVars

\* the exception propagates to the caller: nothing catches it
Raise ==
    /\ pc = "Failed"
    /\ BackToIdle
    /\ UNCHANGED codecVars

\* ch.voltage: ask("n V?") writes the query
GetVoltage(n) ==
    /\ CanStart
    /\ op' = "getVoltage"
    /\ cur' = [prop |-> "voltage", ch |-> n]
    /\ io' = <<W(VoltageQuery(n))>>
    /\ Transmit(VoltageQuery(n))
    /\ pc' = "AwaitingVoltage"
    /\ UNCHANGED <<volt, flag, todo, result, error, reading, closed, device>>
    /\ UNCHANGED codecVars

\* ask reads the response; the stripped line goes through cast, and a line
\* cast raises on is handed to the caller as it is
VoltageReceived(line) ==
    /\ pc = "AwaitingVoltage"
    /\ Receive(line)
    /\ io' = Append(io, R(line))
    /\ reading' = measured_voltage(line)
    /\ pc' = "Returned"
    /\ UNCHANGED <<op, cur, volt, flag, todo, result, error, closed, device>>
    /\ UNCHANGED codecVars

\* ch.enabled: ask("n S?") writes the query
GetEnabled(n) ==
    /\ CanStart
    /\ op' = "getEnabled"
    /\ cur' = [prop |-> "enabled (get)", ch |-> n]
    /\ io' = <<W(EnabledQuery(n))>>
    /\ Transmit(EnabledQuery(n))
    /\ pc' = "AwaitingEnabled"
    /\ UNCHANGED <<volt, flag, todo, result, error, reading, closed, device>>
    /\ UNCHANGED codecVars

\* ask reads the response; the stripped line is mapped back through values,
\* and a line that is neither "ON" nor "OFF" raises
EnabledReceived(line) ==
    /\ pc = "AwaitingEnabled"
    /\ Receive(line)
    /\ io' = Append(io, R(line))
    /\ IF Strip(line) \in {EnabledToken(TRUE), EnabledToken(FALSE)}
       THEN /\ reading' = [NoReading EXCEPT !.kind = "bool",
                                            !.text = Strip(line)]
            /\ pc' = "Returned"
            /\ error' = error
       ELSE /\ reading' = reading
            /\ pc' = "Failed"
            /\ error' = "Value " \o Strip(line) \o " not found in mapped values"
    /\ UNCHANGED <<op, cur, volt, flag, todo, result, closed, device>>
    /\ UNCHANGED codecVars

\* enabled_channels: ask("ALL S?") writes the query
GetEnabledChannels ==
    /\ CanStart
    /\ op' = "getEnabledChannels"
    /\ io' = <<W(StatusQuery)>>
    /\ Transmit(StatusQuery)
    /\ pc' = "AwaitingStatus"
    /\ UNCHANGED <<cur, volt, flag, todo, result, error, reading, closed, device>>
    /\ UNCHANGED codecVars

\* disable_all: the for statement evaluates self.enabled_channels once
DisableAll ==
    /\ CanStart
    /\ op' = "disableAll"
    /\ io' = <<W(StatusQuery)>>
    /\ Transmit(StatusQuery)
    /\ pc' = "AwaitingStatus"
    /\ UNCHANGED <<cur, volt, flag, todo, result, error, reading, closed, device>>
    /\ UNCHANGED codecVars

\* shutdown: its first statement is the call of disable_all
Shutdown ==
    /\ CanStart
    /\ op' = "shutdown"
    /\ io' = <<W(StatusQuery)>>
    /\ Transmit(StatusQuery)
    /\ pc' = "AwaitingStatus"
    /\ UNCHANGED <<cur, volt, flag, todo, result, error, reading, closed, device>>
    /\ UNCHANGED codecVars

\* the operations that run the loop of disable_all
RunsDisableAll(o) == o \in {"disableAll", "shutdown"}

\* ask reads the response; enabled_channels parses it and returns the list
StatusReceived(line) ==
    /\ pc = "AwaitingStatus"
    /\ Receive(line)
    /\ io' = Append(io, R(line))
    /\ IF RunsDisableAll(op)
       THEN todo' = enabled_channels(line) /\ result' = result /\ pc' = "Loop"
       ELSE result' = enabled_channels(line) /\ todo' = todo /\ pc' = "Returned"
    /\ UNCHANGED <<op, cur, volt, flag, error, reading, closed, device>>
    /\ UNCHANGED codecVars

\* self.channels[ch].voltage_setpoint = 0 for the next channel of the list
LoopSetVoltage ==
    /\ pc = "Loop"
    /\ todo # <<>>
    /\ cur' = [prop |-> "voltage_setpoint", ch |-> Head(todo)]
    /\ volt' = 0
    /\ io' = Append(io, W(VoltageCommand(Head(todo), 0)))
    /\ Transmit(VoltageCommand(Head(todo), 0))
    /\ pc' = "CommandSent"
    /\ UNCHANGED <<op, flag, todo, result, error, reading, closed, device>>
    /\ UNCHANGED codecVars

\* self.channels[ch].enabled = False, once the setpoint setter returned
LoopDisable ==
    /\ pc = "Success"
    /\ RunsDisableAll(op)
    /\ cur.prop = "voltage_setpoint"
    /\ cur' = [prop |-> "enabled", ch |-> cur.ch]
    /\ flag' = FALSE
    /\ io' = Append(io, W(EnabledCommand(cur.ch, FALSE)))
    /\ Transmit(EnabledCommand(cur.ch, FALSE))
    /\ pc' = "CommandSent"
    /\ UNCHANGED <<op, volt, todo, result, error, reading, closed, device>>
    /\ UNCHANGED codecVars

\* the loop moves to the next channel and asks the device again
LoopNextRequery ==
    /\ pc = "Success"
    /\ RunsDisableAll(op)
    /\ cur.prop = "enabled"
    /\ IF Len(todo) > 1
       THEN /\ io' = Append(io, W(StatusQuery))
            /\ Transmit(StatusQuery)
            /\ pc' = "AwaitingStatus"
            /\ todo' = todo
       ELSE /\ io' = io
            /\ pending' = pending
            /\ pc' = "Loop"
            /\ todo' = Tail(todo)
    /\ cur' = NoCur
    /\ UNCHANGED <<op, volt, flag, result, error, reading, closed, device>>
    /\ UNCHANGED codecVars

\* the enabled setter returned: the loop moves to the next channel
LoopNext ==
    /\ pc = "Success"
    /\ RunsDisableAll(op)
    /\ cur.prop = "enabled"
    /\ todo' = Tail(todo)
    /\ cur' = NoCur
    /\ pc' = "Loop"
    /\ UNCHANGED <<op, volt, flag, io, result, error, reading>>
    /\ UNCHANGED <<closed, pending, device>>
    /\ UNCHANGED codecVars

\* disable_all returned and nothing follows it
AfterDisableAllReturn(o) == "Returned"

\* where control goes when disable_all returns: in shutdown the call of
\* super().shutdown() follows
AfterDisableAll(o) == IF o = "shutdown" THEN "Teardown" ELSE "Returned"

\* the list is exhausted: disable_all returns
LoopEnd ==
    /\ pc = "Loop"
    /\ todo = <<>>
    /\ pc' = AfterDisableAll(op)
    /\ UNCHANGED <<op, cur, volt, flag, io, todo, result, error, reading>>
    /\ UNCHANGED <<closed, pending, device>>
    /\ UNCHANGED codecVars

\* super().shutdown(): the framework's teardown, which writes nothing
Teardown ==
    /\ pc = "Teardown"
    /\ closed' = TRUE
    /\ pc' = "Returned"
    /\ UNCHANGED <<op, cur, volt, flag, io, todo, result, error, reading>>
    /\ UNCHANGED <<pending, device>>
    /\ UNCHANGED codecVars

\* a measurement, enabled_channels, disable_all or shutdown returned to the
\* caller
Return ==
    /\ pc = "Returned"
    /\ BackToIdle
    /\ UNCHANGED codecVars

Next ==
    \/ \E n \in CallerChannels, v \in CallerVoltages : SetVoltage(n, v)
    \/ \E n \in CallerChannels, on \in BOOLEAN : SetEnabled(n, on)
    \/ AfterWrite
    \/ \E line \in Readable(HandshakeLines) : Handshake(line)
    \/ ReturnOk
    \/ Raise
    \/ \E n \in CallerChannels : GetVoltage(n)
    \/ \E line \in Readable(VoltageLines) : VoltageReceived(line)
    \/ \E n \in CallerChannels : GetEnabled(n)
    \/ \E line \in Readable(EnabledLines) : EnabledReceived(line)
    \/ GetEnabledChannels
    \/ DisableAll
    \/ Shutdown
    \/ \E line \in Readable(StatusLines) : StatusReceived(line)
    \/ LoopSetVoltage
    \/ LoopDisable
    \/ LoopNext
    \/ LoopEnd
    \/ Teardown
    \/ Return

Spec == Init /\ [][Next]_vars

\* ---------------------------------- specification with an answering device
DeviceInit == CtlIdle /\ device = "answering" /\ CodecIdle

SpecDevice == DeviceInit /\ [][Next]_vars

\* ------------------------------------------------ codec specification
CodecInit ==
    /\ CtlIdle
    /\ device = "any"
    /\ stage = "input"
    /\ cv \in InRange
    /\ ccode = ""
    /\ cdec = <<0, 1>>

Encode ==
    /\ stage = "input"
    /\ ccode' = set_process(cv)
    /\ stage' = "encoded"
    /\ UNCHANGED <<cv, cdec>>
    /\ UNCHANGED ctlVars

Decode ==
    /\ stage = "encoded"
    /\ cdec' = cast(ccode)
    /\ stage' = "decoded"
    /\ UNCHANGED <<cv, ccode>>
    /\ UNCHANGED ctlVars

CodecNext == Encode \/ Decode

SpecCodec == CodecInit /\ [][CodecNext]_vars

\* ------------------------------------------------------------ properties
\* a line with its line termination removed
RECURSIVE StripEOL(_)
StripEOL(s) ==
    IF Len(s) > 0 /\ Chr(s, Len(s)) \in {"\r", "\n"}
    THEN StripEOL(SubSeq(s, 1, Len(s) - 1))
    ELSE s

StartsWith(s, prefix) ==
    Len(s) >= Len(prefix) /\ SubSeq(s, 1, Len(prefix)) = prefix

EndsWith(s, suffix) ==
    Len(s) >= Len(suffix) /\ SubSeq(s, Len(s) - Len(suffix) + 1, Len(s)) = suffix

\* s is exactly six uppercase hexadecimal digits
IsWireCode(s) ==
    /\ Len(s) = 6
    /\ \A i \in 1..Len(s) : \E k \in 1..16 : Chr(s, i) = Chr(UpperDigits, k)

\* text is "n <code>" for channel n and a six digit wire code
IsVoltageCommand(text, n) ==
    LET prefix == ToString(n) \o " "
    IN  /\ StartsWith(text, prefix)
        /\ IsWireCode(SubSeq(text, Len(prefix) + 1, Len(text)))

\* the setter of op setVoltage has finished, one way or the other
SetVoltageDone == op = "setVoltage" /\ pc \in {"Success", "Failed"}

\* C1: setVoltage with a voltage in [-10,10] writes one command "n <code>"
\* and reads one line; when that line without its termination is "0" the
\* setter returns without raising.
C1_HandshakeZeroSucceeds ==
    (SetVoltageDone /\ volt \in InRange) =>
        /\ Len(io) = 2
        /\ io[1].dir = "w" /\ IsVoltageCommand(io[1].text, cur.ch)
        /\ io[2].dir = "r"
        /\ (StripEOL(io[2].text) = "0" => pc = "Success" /\ error = "")

\* C2: after a set-voltage command, a handshake line other than "0" makes
\* the setter fail with an error that carries the raw response.
C2_BadHandshakeFails ==
    (pc \in {"Success", "Failed"} /\ cur.prop = "voltage_setpoint") =>
        LET line == io[Len(io)]
        IN  /\ line.dir = "r"
            /\ (StripEOL(line.text) # "0" =>
                    /\ pc = "Failed"
                    /\ error # ""
                    /\ EndsWith(error, line.text))

C2_Witness ==
    /\ op = "setVoltage"
    /\ pc = "Failed"
    /\ io = <<W("1 7FFFFF"), R("E1")>>
    /\ error = "Channel Error: E1"

\* C3 as stated: setVoltage with a voltage outside [-10,10] raises and
\* neither writes nor reads.
C3_OutOfRangeRaisesNoIO ==
    (op = "setVoltage" /\ volt \notin InRange) => (pc = "Failed" /\ io = <<>>)

\* C3 amended: setVoltage with a voltage outside [-10,10] raises no
\* validation error; it writes the command of the nearer end of the range
\* and then performs the handshake read like any other set-voltage command.
C3_OutOfRangeTruncated ==
    (op = "setVoltage" /\ volt \notin InRange) =>
        LET nearest == IF volt > 0 THEN VoltHi * VoltGrid ELSE VoltLo * VoltGrid
        IN  /\ Len(io) >= 1
            /\ io[1] = W(ChannelCommand(cur.ch, set_process(nearest)))
            /\ (pc \in {"Success", "Failed"} => Len(io) = 2 /\ io[2].dir = "r")

C3_Witness ==
    /\ op = "setVoltage"
    /\ volt = (VoltHi + 1) * VoltGrid
    /\ pc = "Success"
    /\ io = <<W("1 FFFFFE"), R("0\r\n")>>

\* C4: 0 V is sent as 7FFFFF, 10 V as FFFFFF and -10 V as 000000, so
\* channel 5 at 10 V writes "5 FFFFFF" and channel 12 at -10 V "12 000000".
C4_ReferenceCodes ==
    (op = "setVoltage" /\ pc = "CommandSent") =>
        /\ (volt = 0 => io = <<W(ToString(cur.ch) \o " 7FFFFF")>>)
        /\ (volt = VoltHi * VoltGrid => io = <<W(ToString(cur.ch) \o " FFFFFF")>>)
        /\ (volt = VoltLo * VoltGrid => io = <<W(ToString(cur.ch) \o " 000000")>>)

RECURSIVE RatLeq(_, _, _, _)
\* a/b <= c/d for b > 0 and d > 0, by continued fractions (no products)
RatLeq(a, b, c, d) ==
    LET qa == a \div b
        ra == a % b
        qc == c \div d
        rc == c % d
    IN  IF qa # qc THEN qa < qc
        ELSE IF ra = 0 THEN TRUE
        ELSE IF rc = 0 THEN FALSE
        ELSE RatLeq(d, rc, b, ra)

\* the voltage cv displaced by k * 1.2e-6 V (= k * 3/2500000), as a fraction
Displaced(k) == <<cv * 2500000 + k * 3 * VoltGrid, 2500000 * VoltGrid>>

\* C5: for every voltage in [-10,10], decoding the encoded voltage gives a
\* voltage within 1.2e-6 V of it.
C5_RoundTrip ==
    stage = "decoded" =>
        /\ RatLeq(Displaced(0 - 1)[1], Displaced(0 - 1)[2], cdec[1], cdec[2])
        /\ RatLeq(cdec[1], cdec[2], Displaced(1)[1], Displaced(1)[2])

\* a voltage whose round trip is not exact has been decoded
C5_Witness ==
    /\ stage = "decoded"
    /\ cv = VoltHi * VoltGrid
    /\ ccode = "FFFFFE"
    /\ ~RatLeq(Displaced(0)[1], Displaced(0)[2], cdec[1], cdec[2])

\* C6: every wire code a set-voltage command writes is exactly six
\* uppercase hexadecimal digits (an integer in 000000..FFFFFF).
C6_WireCodeSixHexDigits ==
    (pc = "CommandSent" /\ cur.prop = "voltage_setpoint") =>
        LET text == io[Len(io)].text
            prefix == ToString(cur.ch) \o " "
            code == SubSeq(text, Len(prefix) + 1, Len(text))
        IN  /\ io[Len(io)].dir = "w"
            /\ StartsWith(text, prefix)
            /\ IsWireCode(code)
            /\ HexVal(code) \in 0..16777215

C6_Witness ==
    /\ pc = "CommandSent"
    /\ op = "setVoltage"
    /\ volt = VoltLo * VoltGrid
    /\ io = <<W("12 000000")>>

Ascending(seq) == \A i \in 1..(Len(seq) - 1) : seq[i] < seq[i + 1]

Elements(seq) == {seq[i] : i \in 1..Len(seq)}

\* C7: getEnabledChannels writes "ALL S?" once, reads one line, and for a
\* response of twelve ON/OFF fields returns exactly the channels whose field
\* is ON, in ascending order.
C7_EnabledChannels ==
    (op = "getEnabledChannels" /\ pc = "Returned") =>
        /\ Len(io) = 2
        /\ io[1] = W("ALL S?")
        /\ io[2].dir = "r"
        /\ \A S \in ContractSets :
              io[2].text = StatusOf(S) => (Elements(result) = S /\ Ascending(result))
        /\ (io[2].text = "ON;ON;OFF;OFF;OFF;OFF;OFF;OFF;OFF;OFF;OFF;OFF"
               => result = <<1, 2>>)

C7_Witness ==
    /\ op = "getEnabledChannels"
    /\ pc = "Returned"
    /\ io = <<W("ALL S?"), R("ON;ON;OFF;OFF;OFF;OFF;OFF;OFF;OFF;OFF;OFF;OFF")>>
    /\ result = <<1, 2>>

RECURSIVE ZeroThenOff(_)
\* for each channel of chs in turn: its 0 V command, then its OFF command
ZeroThenOff(chs) ==
    IF chs = <<>> THEN <<>>
    ELSE <<ToString(Head(chs)) \o " 7FFFFF", ToString(Head(chs)) \o " OFF">>
             \o ZeroThenOff(Tail(chs))

\* the channels of S in ascending order
AscendingSeq(S) == SelectSeq([i \in Channels |-> i], LAMBDA n : n \in S)

RECURSIVE WrittenTexts(_)
\* the texts of the writes of a log, in order
WrittenTexts(log) ==
    IF log = <<>> THEN <<>>
    ELSE (IF Head(log).dir = "w" THEN <<Head(log).text>> ELSE <<>>)
             \o WrittenTexts(Tail(log))

\* every handshake line disable_all has read is "0" up to line termination
AllHandshakesZero ==
    \A i \in 3..Len(io) : io[i].dir = "r" => StripEOL(io[i].text) = "0"

\* C8: disableAll visits the channels reported ON in ascending order and for
\* each writes "n 7FFFFF", reads the handshake "0", and only then writes
\* "n OFF"; with channels 1 and 2 ON the commands are 1 7FFFFF, 1 OFF,
\* 2 7FFFFF, 2 OFF.
C8_DisableAllOrder ==
    (/\ op = "disableAll"
     /\ pc \in {"Returned", "Failed"}
     /\ io[2].text \in ContractStatusLines
     /\ AllHandshakesZero) =>
        /\ pc = "Returned"
        /\ \A S \in ContractSets :
              io[2].text = StatusOf(S) =>
                  WrittenTexts(SubSeq(io, 3, Len(io))) = ZeroThenOff(AscendingSeq(S))
        /\ \A i \in 3..Len(io) :
              (io[i].dir = "w" /\ EndsWith(io[i].text, " 7FFFFF")) =>
                  (i < Len(io) /\ io[i + 1].dir = "r")

\* the k-th semicolon-delimited field of a response, trimmed
Field(line, k) == Strip(Split(line)[k])

ReportedOff(line, n) == n <= Len(Split(line)) /\ Field(line, n) = "OFF"

AddressedTo(text, n) == StartsWith(text, ToString(n) \o " ")

BlankBefore(line, n) ==
    \E k \in 1..(n - 1) : k <= Len(Split(line)) /\ Field(line, k) = ""

\* C9 as stated: disableAll never writes a command addressed to a channel
\* whose field of the bulk status response is OFF.
C9_NoCommandForOffChannel ==
    (op = "disableAll" /\ Len(io) >= 2) =>
        \A i \in 3..Len(io), n \in Channels :
            (io[i].dir = "w" /\ AddressedTo(io[i].text, n))
                => ~ReportedOff(io[2].text, n)

\* C9 amended: disableAll never writes a command addressed to a channel
\* whose field of the bulk status response is OFF, provided no field before
\* that channel's field is blank (as in every response of twelve ON/OFF
\* fields).
C9_NoCommandForOffChannelAligned ==
    (op = "disableAll" /\ Len(io) >= 2) =>
        \A i \in 3..Len(io), n \in Channels :
            (io[i].dir = "w" /\ AddressedTo(io[i].text, n)
                /\ ~BlankBefore(io[2].text, n))
                => ~ReportedOff(io[2].text, n)

C9_Witness ==
    /\ op = "disableAll"
    /\ pc = "Returned"
    /\ io[2].text = "ON;ON;OFF;OFF;OFF;OFF;OFF;OFF;OFF;OFF;OFF;OFF"
    /\ WrittenTexts(io) = <<"ALL S?", "1 7FFFFF", "1 OFF", "2 7FFFFF", "2 OFF">>

Wrote == io' # io /\ io' # <<>>

\* C11: shutdown runs the whole disable_all sequence first and the
\* framework's teardown only afterwards: when the teardown begins every
\* channel of the list has had its 0 V and OFF commands, no command is
\* written once the teardown has begun, and the teardown follows whenever
\* disable_all completes without an error.
C11_TeardownAfterDisableAll ==
    /\ []((op = "shutdown" /\ (pc = "Teardown" \/ closed)) =>
            /\ todo = <<>>
            /\ error = ""
            /\ WrittenTexts(io) =
                   <<StatusQuery>> \o ZeroThenOff(enabled_channels(io[2].text)))
    /\ [][/\ (pc = "Teardown" \/ closed) => ~Wrote
          /\ (op = "shutdown" /\ pc = "Loop" /\ todo = <<>>) => pc' = "Teardown"
          /\ pc = "Teardown" => closed'
          /\ (closed' /\ ~closed) => (op = "shutdown" /\ pc = "Teardown")]_vars

C11_Witness ==
    /\ op = "shutdown"
    /\ pc = "Returned"
    /\ closed
    /\ WrittenTexts(io) = <<"ALL S?", "3 7FFFFF", "3 OFF">>

\* text is "n ON" or "n OFF" for some channel n
IsEnabledCommand(text) ==
    \E n \in Channels : text \in {ToString(n) \o " ON", ToString(n) \o " OFF"}

\* text is "n <code>" for some channel n
IsSetpointCommand(text) == \E n \in Channels : IsVoltageCommand(text, n)

C13_FailFast ==
    /\ []((RunsDisableAll(op) /\ pc = "Failed") =>
            /\ ~closed
            /\ error # ""
            /\ EndsWith(error, io[Len(io)].text)
            /\ io[Len(io)].dir = "r"
            /\ io[Len(io) - 1] = W(ToString(cur.ch) \o " 7FFFFF")
            /\ todo # <<>>
            /\ Head(todo) = cur.ch
            /\ \A i \in 1..Len(io) :
                   io[i].dir = "w" =>
                       /\ io[i].text # ToString(cur.ch) \o " OFF"
                       /\ \A k \in 2..Len(todo) : ~AddressedTo(io[i].text, todo[k]))
    /\ [][(RunsDisableAll(op) /\ pc = "Failed") =>
              (pc' = "Idle" /\ ~Wrote /\ ~closed')]_vars

C13_Witness ==
    /\ op = "shutdown"
    /\ pc = "Failed"
    /\ todo = <<2, 5>>
    /\ WrittenTexts(io) = <<"ALL S?", "2 7FFFFF">>
    /\ ~closed

\* C14: a failed handshake is not retried: the command has been written
\* exactly once, nothing more is written for the operation, and the setter
\* goes Idle, CommandSent, AwaitingHandshake, Failed, Idle without coming
\* back to CommandSent.
C14_NoRetry ==
    /\ []((pc = "Failed" /\ cur.prop = "voltage_setpoint") =>
            /\ io[Len(io)].dir = "r"
            /\ io[Len(io) - 1].dir = "w"
            /\ Cardinality({i \in 1..Len(io) : io[i] = io[Len(io) - 1]}) = 1
            /\ (op = "setVoltage" => Len(io) = 2))
    /\ [][/\ pc = "Failed" => (pc' = "Idle" /\ ~Wrote)
          /\ (pc = "Idle" /\ op' = "setVoltage") => pc' = "CommandSent"
          /\ (pc = "CommandSent" /\ cur.prop = "voltage_setpoint") =>
                 pc' = "AwaitingHandshake"
          /\ pc = "AwaitingHandshake" => pc' \in {"Success", "Failed"}
          /\ pc' = "CommandSent" => pc \in {"Idle", "Loop", "Success"}]_vars

C14_Witness ==
    /\ op = "setVoltage"
    /\ pc = "Failed"
    /\ volt = 0
    /\ io = <<W("9 7FFFFF"), R("0")>>

\* s is a suffix of t
IsSuffix(s, t) == Len(s) <= Len(t) /\ SubSeq(t, Len(t) - Len(s) + 1, Len(t)) = s

\* C15: disableAll asks for the status once: "ALL S?" is the first thing it
\* writes and is written exactly once, and the channels it acts on are those
\* of that one response.
C15_SingleStatusQuery ==
    (RunsDisableAll(op) /\ Len(io) >= 2) =>
        /\ io[1] = W(StatusQuery)
        /\ io[2].dir = "r"
        /\ \A i \in 2..Len(io) : io[i].dir = "w" => io[i].text # StatusQuery
        /\ (pc # "AwaitingStatus" => IsSuffix(todo, enabled_channels(io[2].text)))
        /\ \A i \in 3..Len(io) :
               io[i].dir = "w" =>
                   \E n \in Elements(enabled_channels(io[2].text)) :
                       AddressedTo(io[i].text, n)

C15_Witness ==
    /\ op = "disableAll"
    /\ pc = "Returned"
    /\ WrittenTexts(io) = <<"ALL S?", "1 7FFFFF", "1 OFF", "2 7FFFFF", "2 OFF">>

\* the channels enabled_channels returned, with the response it read
EnabledChannelsReturned == op = "getEnabledChannels" /\ pc = "Returned"

\* C16 as stated: for any response, channel i is returned iff the i-th
\* semicolon-delimited field exists and, trimmed, equals "ON".
C16_FieldPerChannel ==
    EnabledChannelsReturned =>
        \A i \in Channels :
            i \in Elements(result) <=>
                (i <= Len(Split(io[2].text)) /\ Field(io[2].text, i) = "ON")

\* the number of fields that are not blank among the first k fields of line
NonBlankUpTo(line, k) == Cardinality({j \in 1..k : Field(line, j) # ""})

\* C16 amended: blank fields are dropped before the fields are paired with
\* the channels: channel i is returned iff the i-th field that is not blank
\* exists and, trimmed, equals "ON" (the i-th field itself when no field is
\* blank); channels beyond the last such field are not returned.
C16_NonBlankFieldPerChannel ==
    EnabledChannelsReturned =>
        /\ Ascending(result)
        /\ \A i \in Channels :
               i \in Elements(result) <=>
                   \E k \in 1..Len(Split(io[2].text)) :
                       /\ Field(io[2].text, k) = "ON"
                       /\ NonBlankUpTo(io[2].text, k) = i

C16_Witness ==
    /\ EnabledChannelsReturned
    /\ io[2].text = ";OFF;ON"
    /\ result = <<2>>

AwaitingLine ==
    pc \in {"AwaitingHandshake", "AwaitingVoltage", "AwaitingEnabled",
            "AwaitingStatus"}

\* C18: with a device that answers every command with one line, no unread
\* line is left when an operation has returned, and a read finds exactly the
\* answer to the command the operation has just written.
C18_NoStaleLine ==
    /\ pc = "Idle" => pending = <<>>
    /\ AwaitingLine => Len(pending) = 1

====
